---- MODULE Spec2Model ----
(***************************************************************************)
(* Model of package safe (src/safe.go): panics converted to error values   *)
(* by Do / DoWithResult, the Group of guarded subtasks built on            *)
(* errgroup.Group, and safe.Go with the global panic handler.              *)
(***************************************************************************)
EXTENDS Integers, Sequences, FiniteSets, TLC

VARIABLES
    panicnil,   \* build/runtime setting: TRUE when recover() yields nil for panic(nil)
                \* (Go < 1.21 or GODEBUG=panicnil=1), FALSE when it yields *runtime.PanicNilError
    call,       \* the frame of one synchronous Do / DoWithResult call
    grp,        \* the Group struct: field g (tracker allocated or nil) and its sync.Once
    eg,         \* the errgroup.Group the field g points to: cancel, err, errOnce, wg
    ctx,        \* the derived context returned by GroupWithContext
    tasks,      \* the subtasks passed to Group.Go, by launch position
    completed,  \* subtasks in the order their goroutines handed their result to the tracker
    wait,       \* the caller of Group.Wait
    faulted,    \* a runtime fault outside any guard (nil dereference, escaped panic)
    parent,     \* the context passed to GroupWithContext: "active" or "cancelled"
    callers,    \* goroutines inside a Group.Go or Group.Wait call, between g.init() and g.g.Go / g.g.Wait
    panicHandler, \* the atomic.Value holding the global panic handler
    lastSet,    \* the argument of the latest SetPanicHandler call that has returned
    gos,        \* the goroutines started by safe.Go, by launch position
    sink,       \* totals: handler invocations and log lines written by handlePanic
    launcher    \* the goroutine that calls safe.Go

callVars == <<call>>
groupVars == <<grp, eg, ctx, tasks, completed, wait, faulted>>
goVars == <<panicHandler, lastSet, gos, sink, launcher>>
restVars == <<parent, callers, panicHandler, lastSet, gos, sink, launcher>>
vars == <<panicnil, call, grp, eg, ctx, tasks, completed, wait, faulted,
          parent, callers, panicHandler, lastSet, gos, sink, launcher>>

----------------------------------------------------------------------------
(* Values: interface{} values, errors and panic payloads. *)

Nil == [kind |-> "nil"]
StrVal(s) == [kind |-> "string", v |-> s]
IntVal(s) == [kind |-> "int", v |-> s]
NativeErr(m) == [kind |-> "error", v |-> m]
PanicNilError == [kind |-> "runtime.PanicNilError", v |-> "panic called with nil argument"]

\* fmt's %v rendering of a value (the Error() text for an error).
Render(val) == IF val = Nil THEN "<nil>" ELSE val.v

\* The PanicError struct: the embedded pkg/errors error (its message) and val.
PanicError(err, val) == [kind |-> "PanicError", v |-> err, val |-> val]

IsPanicError(e) == e.kind = "PanicError"

\* func (p PanicError) Panic() interface{}
Panic(p) == p.val

\* func panicError(val interface{}) error
panicError(val) == PanicError("panic: " \o Render(val), val)

Payloads == {Nil, StrVal("boom"), StrVal("42"), IntVal("42"), NativeErr("e1")}
Errors == {Nil, NativeErr("e1"), NativeErr("e2"), panicError(StrVal("old"))}
Results == {Nil, StrVal("v"), IntVal("7")}

\* What a function passed to a guard does: return (res, err) or panic(val);
\* res of a panicking function is the value it had computed before the panic.
ReturnFns(R) == [type : {"return"}, res : R, err : Errors, val : {Nil}]
PanicFns(R) == [type : {"panic"}, res : R, err : {Nil}, val : Payloads]
DoFns == ReturnFns({Nil}) \cup PanicFns({Nil})
DoWithResultFns == ReturnFns(Results) \cup PanicFns(Results)

----------------------------------------------------------------------------
(* Do and DoWithResult: named results, a deferred recover, `return fn()`. *)

\* recover() called directly by the deferred function.
recover(panicking, val) ==
    IF ~panicking THEN Nil
    ELSE IF val # Nil THEN val
    ELSE IF panicnil THEN Nil ELSE PanicNilError

\* Frame on entry: the named results hold their zero values.
EnterFrame(kind, fn) ==
    [pc |-> "fn", kind |-> kind, fn |-> fn, res |-> Nil, err |-> Nil,
     panicking |-> FALSE, val |-> Nil,
     normal |-> FALSE, intercepted |-> FALSE, escaped |-> FALSE]

\* `return fn()`: the results are assigned only if fn returns.
RunFn(f) ==
    IF f.fn.type = "return"
    THEN [f EXCEPT !.pc = "defer", !.res = f.fn.res, !.err = f.fn.err, !.normal = TRUE]
    ELSE [f EXCEPT !.pc = "defer", !.panicking = TRUE, !.val = f.fn.val]

\* A slip: every non-nil outcome is turned into a new PanicError.
RunDeferredWrapsAll(f) ==
    LET r == recover(f.panicking, f.val)
        x == IF r # Nil THEN r ELSE f.err
    IN  [f EXCEPT !.pc = "done", !.panicking = FALSE,
                  !.err = IF x # Nil THEN panicError(x) ELSE f.err,
                  !.intercepted = (x # Nil)]

\* defer func() { if r := recover(); r != nil { err = panicError(r) } }()
\* recover() ends the panic whatever it returns.
RunDeferred(f) ==
    LET r == recover(f.panicking, f.val)
    IN  [f EXCEPT !.pc = "done", !.panicking = FALSE,
                  !.err = IF r # Nil THEN panicError(r) ELSE f.err,
                  !.intercepted = (r # Nil),
                  !.escaped = FALSE]

\* func Do(fn func() error) (err error), as one call.
Do(fn) == RunDeferred(RunFn(EnterFrame("Do", fn)))

NoCall == [pc |-> "idle"]

\* Before any SetPanicHandler or safe.Go call: the handler slot is empty.
NoSink == [calls |-> 0, lines |-> 0]

GoIdle ==
    /\ panicHandler = "unset"
    /\ lastSet = "unset"
    /\ gos = << >>
    /\ sink = NoSink
    /\ launcher = [pc |-> "ready", returned |-> 0]

CallDo ==
    /\ call.pc = "idle"
    /\ \E fn \in DoFns : call' = EnterFrame("Do", fn)
    /\ UNCHANGED <<restVars, panicnil, groupVars>>

CallDoWithResult ==
    /\ call.pc = "idle"
    /\ \E fn \in DoWithResultFns : call' = EnterFrame("DoWithResult", fn)
    /\ UNCHANGED <<restVars, panicnil, groupVars>>

FnRuns ==
    /\ call.pc = "fn"
    /\ call' = RunFn(call)
    /\ UNCHANGED <<restVars, panicnil, groupVars>>

DeferredRecover ==
    /\ call.pc = "defer"
    /\ call' = RunDeferred(call)
    /\ UNCHANGED <<restVars, panicnil, groupVars>>

----------------------------------------------------------------------------
(* Group: errgroup.Group behind a lazily initialised pointer. *)

MaxTasks == 3

\* The functions handed to Group.Go.
TaskFns ==
    {fn \in DoFns : /\ fn.err \in {Nil, NativeErr("e1"), NativeErr("e2")}
                    /\ fn.val \in {Nil, StrVal("boom")}}

\* grp.g is "nil" or "eg" (a pointer to the tracker eg); gen counts the
\* trackers the field has been given; made records how the Group value came
\* to be.
NoGroup == [g |-> "nil", once |-> FALSE, made |-> "none", gen |-> 0]
NoTracker == [cancel |-> FALSE, err |-> Nil, errOnce |-> FALSE, wg |-> 0]
NoWait == [pc |-> "idle", seen |-> {}, err |-> Nil, gen |-> 0]

GroupIdle ==
    /\ grp = NoGroup
    /\ eg = NoTracker
    /\ ctx = "none"
    /\ tasks = << >>
    /\ completed = << >>
    /\ wait = NoWait
    /\ faulted = FALSE
    /\ parent = "active"
    /\ callers = << >>

Launched == 1..Len(tasks)

\* func GroupWithContext(ctx context.Context) (*Group, context.Context)
GroupWithContext ==
    /\ grp.made = "none"
    /\ grp' = [g |-> "eg", once |-> FALSE, made |-> "withContext", gen |-> 1]
    /\ eg' = [NoTracker EXCEPT !.cancel = TRUE]
    /\ ctx' = "active"
    /\ UNCHANGED <<restVars, panicnil, call, tasks, completed, wait, faulted>>

\* var g safe.Group: the zero value, no tracker and no context.
ZeroGroup ==
    /\ grp.made = "none"
    /\ grp' = [g |-> "nil", once |-> FALSE, made |-> "zero", gen |-> 0]
    /\ UNCHANGED <<restVars, panicnil, call, eg, ctx, tasks, completed, wait, faulted>>

\* A slip: init allocates nothing.
initNoop(g) == [g EXCEPT !.once = TRUE]

\* A slip: init without the sync.Once, allocating on every call.
initNoOnce(g) == [g EXCEPT !.once = TRUE, !.g = "eg", !.gen = @ + 1]

\* func (g *Group) init(): once, allocate the tracker if there is none.
init(g) ==
    IF g.once THEN g
    ELSE [g EXCEPT !.once = TRUE,
                   !.g = IF g.g = "nil" THEN "eg" ELSE g.g,
                   !.gen = IF g.g = "nil" THEN @ + 1 ELSE @]

\* func (g *Group) Go(fn func() error): g.init(), then g.g.Go starts the
\* goroutine (wg.Add(1)). Called by the owner before Wait, or by a running
\* subtask while Wait is blocked.
Launch(F) ==
    /\ grp.made # "none"
    /\ ~faulted
    /\ Len(tasks) < MaxTasks
    /\ wait.pc # "returned"
    /\ wait.pc = "blocked" => \E t \in Launched : tasks[t].pc = "running"
    /\ \E fn \in F :
          /\ grp' = init(grp)
          /\ IF grp'.g = "nil"
             THEN /\ faulted' = TRUE
                  /\ UNCHANGED <<eg, tasks>>
             ELSE /\ eg' = [eg EXCEPT !.wg = @ + 1]
                  /\ tasks' = Append(tasks, [pc |-> "running", fn |-> fn, ret |-> Nil,
                                          gen |-> grp'.gen])
                  /\ UNCHANGED faulted
    /\ UNCHANGED <<restVars, panicnil, call, ctx, completed, wait>>

GroupGo == Launch(TaskFns)

\* A slip: the subtask runs fn without Do; its panic leaves the goroutine.
TaskRunsUnguarded(t) ==
    /\ ~faulted
    /\ tasks[t].pc = "running"
    /\ LET f == RunFn(EnterFrame("Do", tasks[t].fn))
       IN  /\ tasks' = [tasks EXCEPT ![t].pc = "returned", ![t].ret = f.err]
           /\ faulted' = f.panicking
    /\ UNCHANGED <<restVars, panicnil, call, grp, eg, ctx, completed, wait>>

\* A slip: the subtask's panic is also passed to the global panic handler,
\* as safe.Go does.
TaskRunsDispatches(t) ==
    /\ ~faulted
    /\ tasks[t].pc = "running"
    /\ LET f == Do(tasks[t].fn)
           fn == IF panicHandler \in {"h1", "h2"} THEN panicHandler ELSE "nil"
       IN  /\ tasks' = [tasks EXCEPT ![t].pc = "returned", ![t].ret = f.err]
           /\ faulted' = f.escaped
           /\ sink' = IF ~f.intercepted THEN sink
                      ELSE IF fn = "nil" THEN [sink EXCEPT !.lines = @ + 1]
                      ELSE [sink EXCEPT !.calls = @ + 1]
    /\ UNCHANGED <<parent, callers, panicHandler, lastSet, gos, launcher,
                   panicnil, call, grp, eg, ctx, completed, wait>>

\* The subtask's goroutine runs `return Do(fn)`; a panic leaving Do would
\* leave the goroutine and end the process.
TaskRuns(t) ==
    /\ ~faulted
    /\ tasks[t].pc = "running"
    /\ LET f == Do(tasks[t].fn)
       IN  /\ tasks' = [tasks EXCEPT ![t].pc = "returned", ![t].ret = f.err]
           /\ faulted' = f.escaped
    /\ UNCHANGED <<restVars, panicnil, call, grp, eg, ctx, completed, wait>>

\* A slip: the first result is recorded even when it is nil.
RecordFirstResult(e, ret) ==
    IF ~e.errOnce THEN [e EXCEPT !.err = ret, !.errOnce = TRUE] ELSE e

\* The tracker on a subtask's return value: the first non-nil error is kept.
Record(e, ret) ==
    IF ret # Nil /\ ~e.errOnce THEN [e EXCEPT !.err = ret, !.errOnce = TRUE] ELSE e

\* A slip: the context is cancelled when any subtask finishes.
CancelOnAnyResult(e, ret, c) ==
    IF e.cancel THEN "cancelled" ELSE c

\* The tracker cancels the derived context with the error it has just kept,
\* when it has a cancel function.
CancelOnError(e, ret, c) ==
    IF ret # Nil /\ ~e.errOnce /\ e.cancel THEN "cancelled" ELSE c

\* The value Do returned reaches the tracker, and the goroutine is counted
\* as finished (wg.Done).
TaskReports(t) ==
    /\ ~faulted
    /\ tasks[t].pc = "returned"
    /\ eg' = [Record(eg, tasks[t].ret) EXCEPT !.wg = @ - 1]
    /\ ctx' = CancelOnError(eg, tasks[t].ret, ctx)
    /\ tasks' = [tasks EXCEPT ![t].pc = "done"]
    /\ completed' = Append(completed, t)
    /\ UNCHANGED <<restVars, panicnil, call, grp, wait, faulted>>

\* func (g *Group) Wait() error: g.init(), then g.g.Wait() blocks.
WaitCall ==
    /\ grp.made # "none"
    /\ ~faulted
    /\ wait.pc = "idle"
    /\ grp' = init(grp)
    /\ IF grp'.g = "nil"
       THEN /\ faulted' = TRUE
            /\ UNCHANGED wait
       ELSE /\ wait' = [wait EXCEPT !.pc = "blocked", !.seen = Launched, !.gen = grp'.gen]
            /\ UNCHANGED faulted
    /\ UNCHANGED <<restVars, panicnil, call, eg, ctx, tasks, completed>>

\* A slip: Wait returns as soon as an error has been kept.
WaitReturnsOnError ==
    /\ ~faulted
    /\ wait.pc = "blocked"
    /\ eg.wg = 0 \/ eg.errOnce
    /\ wait' = [wait EXCEPT !.pc = "returned", !.err = eg.err]
    /\ ctx' = IF eg.cancel THEN "cancelled" ELSE ctx
    /\ UNCHANGED <<restVars, panicnil, call, grp, eg, tasks, completed, faulted>>

\* g.g.Wait() returns: every counted goroutine is finished; the context is
\* cancelled when there is a cancel function; the kept error is returned.
WaitReturns ==
    /\ ~faulted
    /\ wait.pc = "blocked"
    /\ eg.wg = 0
    /\ wait' = [wait EXCEPT !.pc = "returned", !.err = eg.err]
    /\ ctx' = IF eg.cancel THEN "cancelled" ELSE ctx
    /\ UNCHANGED <<restVars, panicnil, call, grp, eg, tasks, completed, faulted>>

Init ==
    /\ panicnil \in BOOLEAN
    /\ call = NoCall
    /\ GroupIdle
    /\ GoIdle

\* The caller cancels the context it passed to GroupWithContext; the derived
\* context is cancelled with it.
ParentCancel ==
    /\ grp.made = "withContext"
    /\ parent = "active"
    /\ parent' = "cancelled"
    /\ ctx' = "cancelled"
    /\ UNCHANGED <<panicnil, call, grp, eg, tasks, completed, wait, faulted,
                   callers, goVars>>

Next ==
    \/ GroupWithContext
    \/ ZeroGroup
    \/ GroupGo
    \/ \E t \in Launched : TaskRuns(t)
    \/ \E t \in Launched : TaskReports(t)
    \/ WaitCall
    \/ WaitReturns
    \/ ParentCancel

Spec == Init /\ [][Next]_vars

\* The scheduler runs every goroutine that can run: a subtask's function
\* returns or panics, its result reaches the tracker, and a Wait whose
\* counter is zero returns.
Fairness ==
    /\ \A t \in 1..MaxTasks : WF_vars(t \in Launched /\ TaskRuns(t))
    /\ \A t \in 1..MaxTasks : WF_vars(t \in Launched /\ TaskReports(t))
    /\ WF_vars(WaitReturns)

\* The functions launched when termination is checked: one that returns and
\* two that panic.
LiveFns == {fn \in TaskFns : fn.err = Nil}

GroupGoLive == Launch(LiveFns)

NextFair ==
    \/ GroupWithContext
    \/ ZeroGroup
    \/ GroupGoLive
    \/ \E t \in Launched : TaskRuns(t)
    \/ \E t \in Launched : TaskReports(t)
    \/ WaitCall
    \/ WaitReturns
    \/ ParentCancel

SpecFair == Init /\ [][NextFair]_vars /\ Fairness

\* The group is used after SetPanicHandler(h1) has returned.
InitHandled ==
    /\ panicnil \in BOOLEAN
    /\ call = NoCall
    /\ GroupIdle
    /\ panicHandler = "h1"
    /\ lastSet = "h1"
    /\ gos = << >>
    /\ sink = NoSink
    /\ launcher = [pc |-> "ready", returned |-> 0]

SpecHandled == InitHandled /\ [][Next]_vars

----------------------------------------------------------------------------
(* safe.Go, SetPanicHandler and handlePanic. *)

MaxGos == 2

\* Handler functions; "nilfunc" is a nil func(err error) passed as a handler.
Handlers == {"h1", "h2"}
HandlerArgs == Handlers \cup {"nilfunc"}

\* What a handler does when invoked: return, panic(val), or never return.
HandlerOutcomes ==
    [type : {"return", "block"}, val : {Nil}]
        \cup [type : {"panic"}, val : {Nil, StrVal("hboom")}]

\* A function whose body is `return Do(inner)`.
CallsDo(inner) ==
    [type |-> "return", res |-> Nil, err |-> Do(inner).err, val |-> Nil]

\* The functions handed to safe.Go: return, panic(val), never return, or a
\* body that runs inner under depth nested Do guards (the guard of a Group
\* subtask is Do as well) and then returns.
GuardedFns == {fn \in DoFns : fn.type = "panic" /\ fn.val \in {Nil, StrVal("boom")}}
GoFns ==
    [type : {"return", "block"}, val : {Nil}, inner : {<< >>}, depth : {0}]
        \cup [type : {"panic"}, val : {Nil, StrVal("boom"), IntVal("42")},
              inner : {<< >>}, depth : {0}]
        \cup [type : {"return"}, val : {Nil},
              inner : {<<fn>> : fn \in GuardedFns}, depth : {1, 2}]

\* The error the body of a safe.Go function gets from its guarded code.
GuardedResult(fn) ==
    IF fn.inner = << >> THEN Nil
    ELSE IF fn.depth = 1 THEN Do(fn.inner[1]).err
    ELSE Do(CallsDo(fn.inner[1])).err

NewGo(fn) ==
    [pc |-> "spawned", fn |-> fn, got |-> Nil, err |-> Nil,
     loaded |-> "none", atStart |-> "none",
     calls |-> 0, invoked |-> "none", arg |-> Nil,
     hout |-> "none", hval |-> Nil, logs |-> << >>]

Spawned == 1..Len(gos)

\* A slip: the handler is kept only if none was set before.
SetPanicHandlerOnce ==
    /\ \E h \in HandlerArgs :
          /\ panicHandler' = IF panicHandler = "unset" THEN h ELSE panicHandler
          /\ lastSet' = h
    /\ UNCHANGED <<panicnil, call, groupVars, parent, callers, gos, sink, launcher>>

\* func SetPanicHandler(fn func(err error)): panicHandler.Store(fn)
SetPanicHandler ==
    /\ \E h \in HandlerArgs :
          /\ panicHandler' = h
          /\ lastSet' = h
    /\ UNCHANGED <<panicnil, call, groupVars, parent, callers, gos, sink, launcher>>

\* A slip: Go runs fn on the caller's goroutine.
SafeGoInline ==
    /\ launcher.pc = "ready"
    /\ Len(gos) < MaxGos
    /\ \E fn \in GoFns : gos' = Append(gos, NewGo(fn))
    /\ launcher' = [launcher EXCEPT !.pc = "inFn"]
    /\ UNCHANGED <<panicnil, call, groupVars, parent, callers, panicHandler, lastSet,
                   sink>>

\* func Go(fn func()): the go statement starts the goroutine and Go returns.
SafeGo ==
    /\ launcher.pc = "ready"
    /\ Len(gos) < MaxGos
    /\ \E fn \in GoFns : gos' = Append(gos, NewGo(fn))
    /\ launcher' = [launcher EXCEPT !.returned = @ + 1]
    /\ UNCHANGED <<panicnil, call, groupVars, parent, callers, panicHandler, lastSet,
                   sink>>

\* The goroutine runs fn(): it returns, never returns, or panics.
GoFnRuns(g) ==
    /\ gos[g].pc = "spawned"
    /\ gos' = [gos EXCEPT ![g].pc = CASE gos[g].fn.type = "return" -> "done"
                                      [] gos[g].fn.type = "block" -> "blocked"
                                      [] OTHER -> "recover",
                          ![g].got = GuardedResult(gos[g].fn)]
    /\ UNCHANGED <<panicnil, call, groupVars, parent, callers, panicHandler, lastSet,
                   sink, launcher>>

\* fn, _ := panicHandler.Load().(func(err error)): nil when nothing or a nil
\* func was stored.
HandlerOf(slot) == IF slot \in Handlers THEN slot ELSE "nil"

\* handlePanic up to the handler call: err := panicError(val), one Load, and
\* the default log line when fn == nil.
Dispatch(rec, r) ==
    LET err == panicError(r)
        fn == HandlerOf(panicHandler)
    IN  [rec EXCEPT !.err = err, !.loaded = fn, !.atStart = lastSet,
                    !.pc = IF fn = "nil" THEN "done" ELSE "handler",
                    !.logs = IF fn = "nil"
                             THEN Append(@, [kind |-> "default", err |-> err, original |-> err])
                             ELSE @]

\* The deferred function of Go: if r := recover(); r != nil { handlePanic(r) }
GoRecover(g) ==
    /\ gos[g].pc = "recover"
    /\ LET r == recover(TRUE, gos[g].fn.val)
           rec == IF r = Nil THEN [gos[g] EXCEPT !.pc = "done"] ELSE Dispatch(gos[g], r)
       IN  /\ gos' = [gos EXCEPT ![g] = rec]
           /\ sink' = [sink EXCEPT !.lines = @ + Len(rec.logs)]
    /\ UNCHANGED <<panicnil, call, groupVars, parent, callers, panicHandler, lastSet,
                   launcher>>

\* A slip: the handler is read again from the slot for the call.
HandlerRunsReloads(g) ==
    /\ gos[g].pc = "handler"
    /\ LET fn == HandlerOf(panicHandler)
       IN  \E out \in HandlerOutcomes :
             /\ gos' = [gos EXCEPT ![g].calls = @ + 1, ![g].invoked = fn,
                                   ![g].arg = gos[g].err,
                                   ![g].hout = out.type, ![g].hval = out.val,
                                   ![g].pc = CASE out.type = "return" -> "done"
                                               [] out.type = "block" -> "hblocked"
                                               [] OTHER -> "hrecover"]
             /\ faulted' = (faulted \/ fn = "nil")
    /\ sink' = [sink EXCEPT !.calls = @ + 1]
    /\ UNCHANGED <<panicnil, call, grp, eg, ctx, tasks, completed, wait, parent, callers,
                   panicHandler, lastSet, launcher>>

\* fn(err): the handler that was loaded is called, on this goroutine.
HandlerRuns(g) ==
    /\ gos[g].pc = "handler"
    /\ \E out \in HandlerOutcomes :
          gos' = [gos EXCEPT ![g].calls = @ + 1, ![g].invoked = gos[g].loaded,
                             ![g].arg = gos[g].err,
                             ![g].hout = out.type, ![g].hval = out.val,
                             ![g].pc = CASE out.type = "return" -> "done"
                                         [] out.type = "block" -> "hblocked"
                                         [] OTHER -> "hrecover"]
    /\ sink' = [sink EXCEPT !.calls = @ + 1]
    /\ UNCHANGED <<panicnil, call, groupVars, parent, callers, panicHandler, lastSet,
                   launcher>>

\* The deferred function of handlePanic: if r := recover(); r != nil, one log
\* line with panicError(r) and the original error.
HandlerRecover(g) ==
    /\ gos[g].pc = "hrecover"
    /\ LET r == recover(TRUE, gos[g].hval)
           line == [kind |-> "handler", err |-> panicError(r), original |-> gos[g].err]
       IN  /\ gos' = [gos EXCEPT ![g].pc = "done",
                                 ![g].logs = IF r # Nil THEN Append(@, line) ELSE @]
           /\ sink' = [sink EXCEPT !.lines = IF r # Nil THEN @ + 1 ELSE @]
    /\ UNCHANGED <<panicnil, call, groupVars, parent, callers, panicHandler, lastSet,
                   launcher>>

InitGo ==
    /\ panicnil \in BOOLEAN
    /\ call = NoCall
    /\ GroupIdle
    /\ GoIdle

NextGo ==
    \/ SetPanicHandler
    \/ SafeGo
    \/ \E g \in Spawned : GoFnRuns(g)
    \/ \E g \in Spawned : GoRecover(g)
    \/ \E g \in Spawned : HandlerRuns(g)
    \/ \E g \in Spawned : HandlerRecover(g)

SpecGo == InitGo /\ [][NextGo]_vars

----------------------------------------------------------------------------
(* Concurrent first calls on one Group: each caller of Go or Wait is a      *)
(* goroutine that runs g.init() and then the tracker's method, as two       *)
(* steps that interleave with the other callers and with the subtasks.      *)

MaxCallers == 3

\* The functions the concurrent callers pass to Go.
CallerFns == {fn \in TaskFns : fn.err = Nil /\ fn.val \in {Nil, StrVal("boom")}}

\* A goroutine enters g.Go(fn); its next statement is g.init().
BeginGo ==
    /\ grp.made # "none"
    /\ ~faulted
    /\ Len(callers) < MaxCallers
    /\ \E fn \in CallerFns :
          callers' = Append(callers, [op |-> "Go", fn |-> fn, pc |-> "init"])
    /\ UNCHANGED <<panicnil, call, groupVars, parent, goVars>>

\* A goroutine enters g.Wait(); its next statement is g.init().
BeginWait ==
    /\ grp.made # "none"
    /\ ~faulted
    /\ Len(callers) < MaxCallers
    /\ \A c \in 1..Len(callers) : callers[c].op # "Wait"
    /\ callers' = Append(callers, [op |-> "Wait", fn |-> Nil, pc |-> "init"])
    /\ UNCHANGED <<panicnil, call, groupVars, parent, goVars>>

\* g.init(): g.once.Do runs the allocation in one caller while the others
\* wait for it to finish, so the call is one step for every caller.
CallerInit(c) ==
    /\ ~faulted
    /\ callers[c].pc = "init"
    /\ grp' = init(grp)
    /\ callers' = [callers EXCEPT ![c].pc = "call"]
    /\ UNCHANGED <<panicnil, call, eg, ctx, tasks, completed, wait, faulted,
                   parent, goVars>>

\* g.g.Go(func() error { return Do(fn) }): a nil g.g is a nil dereference;
\* otherwise the subtask is counted (wg.Add(1)) and started on the tracker
\* g.g points to.
CallerGo(c) ==
    /\ ~faulted
    /\ callers[c].op = "Go"
    /\ callers[c].pc = "call"
    /\ Len(tasks) < MaxTasks
    /\ IF grp.g = "nil"
       THEN /\ faulted' = TRUE
            /\ UNCHANGED <<eg, tasks>>
       ELSE /\ eg' = [eg EXCEPT !.wg = @ + 1]
            /\ tasks' = Append(tasks, [pc |-> "running", fn |-> callers[c].fn,
                                       ret |-> Nil, gen |-> grp.gen])
            /\ UNCHANGED faulted
    /\ callers' = [callers EXCEPT ![c].pc = "done"]
    /\ UNCHANGED <<panicnil, call, grp, ctx, completed, wait, parent, goVars>>

\* return g.g.Wait(): a nil g.g is a nil dereference; otherwise the caller
\* blocks on the tracker g.g points to, which counts the subtasks started
\* so far.
CallerWait(c) ==
    /\ ~faulted
    /\ callers[c].op = "Wait"
    /\ callers[c].pc = "call"
    /\ IF grp.g = "nil"
       THEN /\ faulted' = TRUE
            /\ UNCHANGED wait
       ELSE /\ wait' = [wait EXCEPT !.pc = "blocked", !.seen = Launched,
                                    !.gen = grp.gen]
            /\ UNCHANGED faulted
    /\ callers' = [callers EXCEPT ![c].pc = "done"]
    /\ UNCHANGED <<panicnil, call, grp, eg, ctx, tasks, completed, parent, goVars>>

NextInit ==
    \/ GroupWithContext
    \/ ZeroGroup
    \/ BeginGo
    \/ BeginWait
    \/ \E c \in 1..Len(callers) : CallerInit(c)
    \/ \E c \in 1..Len(callers) : CallerGo(c)
    \/ \E c \in 1..Len(callers) : CallerWait(c)
    \/ \E t \in Launched : TaskRuns(t)
    \/ \E t \in Launched : TaskReports(t)
    \/ WaitReturns

SpecInit == Init /\ [][NextInit]_vars

----------------------------------------------------------------------------

InitDo ==
    /\ panicnil \in BOOLEAN
    /\ call = NoCall
    /\ GroupIdle
    /\ GoIdle

NextDo ==
    \/ CallDo
    \/ CallDoWithResult
    \/ FnRuns
    \/ DeferredRecover

SpecDo == InitDo /\ [][NextDo]_vars

----------------------------------------------------------------------------
(* Properties of Do and DoWithResult, checked under SpecDo. *)

DoDone == call.pc = "done" /\ call.kind = "Do"
DoWithResultDone == call.pc = "done" /\ call.kind = "DoWithResult"

\* C1: whenever fn panics with payload p (nil included), Do returns a non-nil
\* PanicError whose Panic() is exactly p.
C1_DoReturnsPanicPayload ==
    (DoDone /\ call.fn.type = "panic") =>
        /\ call.err # Nil
        /\ IsPanicError(call.err)
        /\ Panic(call.err) = call.fn.val

\* C2: whenever fn returns normally with error e (nil, native, or itself a
\* PanicError), Do returns exactly e and builds no new PanicError.
C2_DoPassesErrorThrough ==
    (DoDone /\ call.fn.type = "return") =>
        /\ call.err = call.fn.err
        /\ ~call.intercepted

C2_Witness ==
    /\ DoDone
    /\ call.fn.type = "return"
    /\ IsPanicError(call.fn.err)
    /\ call.err = call.fn.err

\* C3: DoWithResult returns fn's own (v, e) when fn returns, and
\* (zero value, PanicError carrying the payload) when fn panics.
C3_DoWithResultOutcome ==
    DoWithResultDone =>
        /\ call.fn.type = "return" => (call.res = call.fn.res /\ call.err = call.fn.err)
        /\ call.fn.type = "panic" =>
              /\ call.res = Nil
              /\ IsPanicError(call.err)
              /\ Panic(call.err) = call.fn.val

\* C4: a finished Do call took exactly one of the two exits, fn's normal
\* return or the interception of its panic, and no panic left the call.
C4_DoExactlyOneOutcome ==
    DoDone =>
        /\ call.normal # call.intercepted
        /\ call.normal => call.err = call.fn.err
        /\ call.intercepted => IsPanicError(call.err)
        /\ ~call.escaped /\ ~call.panicking


----------------------------------------------------------------------------
(* Properties of Group, checked under Spec. *)

\* A subtask fails when its function panics or returns a non-nil error.
FailingFn(fn) == fn.type = "panic" \/ fn.err # Nil

Finished(t) == tasks[t].pc = "done"

\* The first subtask, in completion order, whose function failed (0 if none).
FirstFailed ==
    LET I == {i \in 1..Len(completed) : FailingFn(tasks[completed[i]].fn)}
    IN  IF I = {} THEN 0
        ELSE completed[CHOOSE i \in I : \A j \in I : i <= j]

\* The first non-nil value, in completion order, that a subtask's Do returned.
FirstReturnedError ==
    LET I == {i \in 1..Len(completed) : tasks[completed[i]].ret # Nil}
    IN  IF I = {} THEN Nil
        ELSE tasks[completed[CHOOSE i \in I : \A j \in I : i <= j]].ret

\* C5: a subtask that panics with payload p never takes its goroutine down;
\* it hands the group a PanicError whose Panic() is p, and Wait returns that
\* PanicError when the subtask is the first to fail.
C5_SubtaskPanicReachesWait ==
    /\ ~faulted
    /\ \A t \in Launched :
          tasks[t].fn.type = "panic" =>
             /\ tasks[t].pc \in {"returned", "done"} =>
                   (IsPanicError(tasks[t].ret) /\ Panic(tasks[t].ret) = tasks[t].fn.val)
             /\ (wait.pc = "returned" /\ FirstFailed = t) =>
                   (IsPanicError(wait.err) /\ Panic(wait.err) = tasks[t].fn.val)

\* Exactly one launched subtask returns a non-nil error, all others return nil.
OneFailingReturn(t) ==
    /\ tasks[t].fn.type = "return" /\ tasks[t].fn.err # Nil
    /\ \A u \in Launched \ {t} : tasks[u].fn.type = "return" /\ tasks[u].fn.err = Nil

\* C6: when exactly one of the launched subtasks returns a non-nil error and
\* the others return nil, Wait returns that error, wherever the failing
\* subtask stands in the launch order and in the completion order.
C6_WaitReturnsTheOneError ==
    \A t \in Launched :
        (wait.pc = "returned" /\ OneFailingReturn(t)) => wait.err = tasks[t].fn.err

C6_Witness ==
    /\ wait.pc = "returned"
    /\ Len(tasks) >= 3
    /\ OneFailingReturn(2)
    /\ completed[1] = 3
    /\ wait.err = tasks[2].fn.err

\* C7: the retained error is the one of the first subtask, in completion
\* order, that failed (returned non-nil or panicked); it is kept from then
\* on, and Wait returns it, nil exactly when no launched subtask failed.
C7_FirstFailureWins ==
    /\ FirstFailed # 0 =>
          /\ eg.err # Nil
          /\ eg.err = tasks[FirstFailed].ret
          /\ tasks[FirstFailed].fn.type = "return" => eg.err = tasks[FirstFailed].fn.err
    /\ FirstFailed = 0 => eg.err = Nil
    /\ wait.pc = "returned" =>
          /\ wait.err = eg.err
          /\ wait.err = Nil <=> \A t \in Launched : ~FailingFn(tasks[t].fn)

\* C8: Wait has not returned while a subtask launched before the Wait call
\* is unfinished, also after a failure has cancelled the context.
C8_WaitOutlastsSubtasks ==
    wait.pc = "returned" => \A t \in wait.seen : Finished(t)

\* Wait has returned after a first failure cancelled the context and a
\* sibling launched before the Wait call finished only afterwards.
C8_Witness ==
    /\ wait.pc = "returned"
    /\ grp.made = "withContext"
    /\ ctx = "cancelled"
    /\ Len(completed) >= 2
    /\ tasks[completed[1]].ret # Nil
    /\ completed[2] \in wait.seen
    /\ \A t \in wait.seen : Finished(t)

\* C9: the derived context of a GroupWithContext group is cancelled once a
\* launched subtask has failed (non-nil error or panic), and in any case
\* once Wait has returned.
C9_ContextCancelled ==
    grp.made = "withContext" =>
        /\ (\E t \in Launched : Finished(t) /\ FailingFn(tasks[t].fn)) => ctx = "cancelled"
        /\ wait.pc = "returned" => ctx = "cancelled"

----------------------------------------------------------------------------
(* Properties of safe.Go and the global handler, checked under SpecGo. *)

DefaultLines(g) == SelectSeq(gos[g].logs, LAMBDA l : l.kind = "default")
HandlerLines(g) == SelectSeq(gos[g].logs, LAMBDA l : l.kind = "handler")

\* The goroutine's fn panicked and the goroutine is through with the fault:
\* finished, or inside a handler that never returns.
FaultSettled(g) ==
    /\ gos[g].fn.type = "panic"
    /\ gos[g].pc \in {"done", "hblocked"}

\* C11: a panic with payload p (nil included) in a function started by
\* safe.Go is delivered exactly once: to the handler, with a PanicError whose
\* Panic() is p and no default log line, when a handler is set; to the default
\* log line, once, when none is set.
C11_FaultDeliveredOnce ==
    \A g \in Spawned :
        FaultSettled(g) =>
            /\ gos[g].loaded # "none"
            /\ gos[g].loaded \in Handlers =>
                  /\ gos[g].calls = 1
                  /\ IsPanicError(gos[g].arg)
                  /\ Panic(gos[g].arg) = gos[g].fn.val
                  /\ DefaultLines(g) = << >>
            /\ gos[g].loaded = "nil" =>
                  /\ gos[g].calls = 0
                  /\ Len(DefaultLines(g)) = 1
                  /\ Panic(DefaultLines(g)[1].err) = gos[g].fn.val

\* C12: when the handler panics, nothing leaves the goroutine, the handler
\* is not called again, and exactly one log line is written, holding the
\* handler's panic and the original fault.
C12_HandlerPanicLogged ==
    /\ ~faulted
    /\ \A g \in Spawned :
          (gos[g].pc = "done" /\ gos[g].hout = "panic") =>
              /\ gos[g].calls = 1
              /\ Len(gos[g].logs) = 1
              /\ gos[g].logs[1].kind = "handler"
              /\ IsPanicError(gos[g].logs[1].err)
              /\ gos[g].logs[1].original = gos[g].err

\* C13: whatever SetPanicHandler calls run alongside, a dispatch reads the
\* slot once: it sees no handler, or the one handler that the latest
\* SetPanicHandler call stored; it calls at most that one handler, and
\* nothing crashes.
C13_DispatchReadsOnce ==
    /\ ~faulted
    /\ \A g \in Spawned :
          /\ gos[g].loaded \in {"none", "nil"} \cup Handlers
          /\ gos[g].loaded \in Handlers => gos[g].loaded = gos[g].atStart
          /\ gos[g].loaded = "nil" => gos[g].atStart \in {"unset", "nilfunc"}
          /\ gos[g].calls <= 1
          /\ gos[g].calls = 1 => (gos[g].invoked = gos[g].loaded /\ gos[g].invoked \in Handlers)

\* A handler was replaced while a dispatch that had loaded the old one was
\* still about to call it; the dispatch called the one it had loaded.
C13_Witness ==
    \E g \in Spawned :
        /\ gos[g].pc = "done"
        /\ gos[g].calls = 1
        /\ gos[g].invoked = "h1"
        /\ gos[g].atStart = "h1"
        /\ panicHandler = "h2"
        /\ Len(gos) >= 2

\* C14: a dispatch that starts when SetPanicHandler(h) was the latest call to
\* return is delivered to h: it loads h, calls h and no other handler, and
\* writes no default log line.
C14_LatestHandlerUsed ==
    \A g \in Spawned :
        gos[g].atStart \in Handlers =>
            /\ gos[g].loaded = gos[g].atStart
            /\ gos[g].calls = 1 => gos[g].invoked = gos[g].atStart
            /\ gos[g].pc \in {"done", "hblocked"} => gos[g].calls = 1
            /\ DefaultLines(g) = << >>

\* Two dispatches with a SetPanicHandler call between them: the first went
\* to h1, the second to h2.
C14_Witness ==
    \E g, k \in Spawned :
        /\ gos[g].pc = "done"
        /\ gos[g].atStart = "h2"
        /\ gos[g].invoked = "h2"
        /\ gos[k].atStart = "h1"
        /\ gos[k].invoked = "h1"

\* C16: a panic under nested guards is turned into a PanicError by the
\* innermost guard; an outer Do returns that same PanicError, and the safe.Go
\* goroutine around them sees a normal return and dispatches nothing.
C16_InnermostGuardOnly ==
    \A g \in Spawned :
        (gos[g].pc = "done" /\ gos[g].fn.inner # << >>) =>
            /\ IsPanicError(Do(gos[g].fn.inner[1]).err)
            /\ gos[g].got = Do(gos[g].fn.inner[1]).err
            /\ ~Do(CallsDo(gos[g].fn.inner[1])).intercepted
            /\ gos[g].calls = 0
            /\ gos[g].logs = << >>
            /\ gos[g].loaded = "none"

\* C19: safe.Go has returned to its caller for every goroutine it started,
\* whatever the goroutines are doing; every handler call and log line belongs
\* to a started goroutine, and the caller is neither blocked nor ended.
RECURSIVE CallsBy(_)
CallsBy(n) == IF n = 0 THEN 0 ELSE gos[n].calls + CallsBy(n - 1)

RECURSIVE LinesBy(_)
LinesBy(n) == IF n = 0 THEN 0 ELSE Len(gos[n].logs) + LinesBy(n - 1)

C19_GoFireAndForget ==
    /\ launcher.pc = "ready"
    /\ launcher.returned = Len(gos)
    /\ ~faulted
    /\ sink.calls = CallsBy(Len(gos))
    /\ sink.lines = LinesBy(Len(gos))

C19_Witness ==
    /\ Len(gos) >= 2
    /\ launcher.pc = "ready"
    /\ launcher.returned = Len(gos)
    /\ gos[1].pc = "blocked"
    /\ gos[2].pc = "hblocked"

----------------------------------------------------------------------------
(* Further properties of Group. *)

\* C17: failures inside a Group never reach the global handler path: no
\* handler call and no log line, for the retained failure and for every
\* later one. Checked under SpecHandled, where a handler is set.
C17_GroupLeavesHandlerAlone ==
    sink = NoSink

\* Wait has returned the first of two different failures, one of them a
\* recovered panic, with a handler set and nothing dispatched.
C17_Witness ==
    /\ panicHandler = "h1"
    /\ wait.pc = "returned"
    /\ Len(completed) >= 2
    /\ tasks[completed[1]].ret # Nil
    /\ tasks[completed[2]].ret # Nil
    /\ tasks[completed[2]].ret # tasks[completed[1]].ret
    /\ \E t \in Launched : IsPanicError(tasks[t].ret)
    /\ wait.err = tasks[completed[1]].ret
    /\ sink = NoSink

\* C18: under SpecFair, a Wait call that blocks eventually returns; a
\* subtask that panics still finishes and is counted.
C18_WaitEventuallyReturns ==
    (wait.pc = "blocked") ~> (wait.pc = "returned")

C18_Witness ==
    /\ wait.pc = "returned"
    /\ \E t \in wait.seen : tasks[t].fn.type = "panic" /\ Finished(t)
    /\ ~faulted

\* C20: while the parent context is not cancelled, no finished subtask has
\* handed the group a non-nil error and Wait has not returned, the derived
\* context of a GroupWithContext group is not cancelled.
C20_NoSpuriousCancel ==
    ( /\ grp.made = "withContext"
      /\ parent = "active"
      /\ wait.pc # "returned"
      /\ \A t \in Launched : Finished(t) => tasks[t].ret = Nil )
        => ctx = "active"

C20_Witness ==
    /\ grp.made = "withContext"
    /\ parent = "active"
    /\ wait.pc = "blocked"
    /\ Len(completed) >= 2
    /\ \A t \in Launched : Finished(t) => tasks[t].ret = Nil
    /\ ctx = "active"

----------------------------------------------------------------------------
(* The tracker under concurrent first calls, checked under SpecInit. *)

\* C15: the tracker of a group is established exactly once and never
\* replaced: a GroupWithContext group keeps the constructor's cancelling
\* tracker; on a zero group, under every interleaving of concurrent first
\* calls to Go and Wait, at most one tracker is ever allocated, no caller
\* finds the field nil after init, every subtask is registered with the
\* tracker the field holds, Wait blocks on that same tracker and returns only
\* when every subtask registered before it blocked has finished.
C15_TrackerEstablishedOnce ==
    /\ grp.gen <= 1
    /\ ~faulted
    /\ grp.made = "withContext" => (grp.g = "eg" /\ grp.gen = 1 /\ eg.cancel)
    /\ grp.made = "zero" => ~eg.cancel
    /\ grp.once => (grp.g = "eg" /\ grp.gen = 1)
    /\ \A c \in 1..Len(callers) : callers[c].pc # "init" => grp.gen = 1
    /\ \A t \in Launched : tasks[t].gen = grp.gen
    /\ wait.pc # "idle" => wait.gen = grp.gen
    /\ wait.pc = "returned" => \A t \in wait.seen : tasks[t].pc = "done"

C15_Witness ==
    /\ grp.made = "zero"
    /\ Len(callers) = 3
    /\ callers[1].op = "Wait" /\ callers[1].pc = "done"
    /\ callers[2].op = "Go" /\ callers[2].pc = "done"
    /\ callers[3].op = "Go" /\ callers[3].pc = "call"
    /\ grp.gen = 1
    /\ Len(tasks) = 1

====
